---- MODULE Spec2Model ----
(***************************************************************************)
(* Model of src/neural_nets/models.py: HiddenLayer, DummyLayer,            *)
(* LogisticLayer, NeuralNet, MultitaskTopLayer, MultitaskNeuralNet and     *)
(* LogisticRegression.                                                     *)
(*                                                                         *)
(* Tensors are exact: a tensor is a record [shape, e, m] standing for the  *)
(* array of that shape whose entries are m[i][j] / 2^e (a vector is held   *)
(* as one row).  Every operation returns the normal form (e as small as    *)
(* possible), so equal arrays are equal records.  An operation on arrays   *)
(* whose shapes do not fit, or on a numpy array, yields ShapeError, which   *)
(* every later operation passes on, and which the calling method reports   *)
(* as a raised exception.                                                  *)
(*                                                                         *)
(* The activation kinds modelled numerically are 'linear' and 'relu';      *)
(* 'sigmoid' and 'tanh' are transcendental and are left out of the         *)
(* enumerated inputs.                                                      *)
(***************************************************************************)
EXTENDS Integers, Sequences, FiniteSets, TLC

\* ------------------------------------------------------------------ bounds
MaxLayers == 2
MaxDim == 2
MaxBatch == 2
MaxTasks == 2
MaxSteps == 2

\* ------------------------------------------------------------ tensor algebra
ShapeError == [err |-> "shape"]

IsErr(x) == "err" \in DOMAIN x

\* A numpy array is the record of its values with a field host; the arrays
\* the operations below return are GPUArrays.
isinstance_GPUArray(x) == "host" \notin DOMAIN x

\* gpuarray.to_gpu of a numpy array: the same values, on the device.
to_gpu(x) == [shape |-> x.shape, e |-> x.e, m |-> x.m]

\* An operand no device operation accepts: an earlier failure, or a numpy array.
Bad(x) == IsErr(x) \/ ~isinstance_GPUArray(x)

NRows(t) == IF Len(t.shape) = 1 THEN 1 ELSE t.shape[1]

NCols(t) == t.shape[Len(t.shape)]

RECURSIVE Norm(_)
Norm(t) ==
    IF t.e > 0 /\ \A i \in 1..NRows(t), j \in 1..NCols(t) : t.m[i][j] % 2 = 0
    THEN Norm([shape |-> t.shape, e |-> t.e - 1,
               m |-> [i \in 1..NRows(t) |-> [j \in 1..NCols(t) |-> t.m[i][j] \div 2]]])
    ELSE t

\* The entry (i, j) of t in units of 2^-e, for e >= t.e.
At(t, e, i, j) == t.m[i][j] * 2^(e - t.e)

RECURSIVE SumTo(_, _)
SumTo(f, n) == IF n = 0 THEN 0 ELSE f[n] + SumTo(f, n - 1)

Transposed(t) ==
    [shape |-> <<t.shape[2], t.shape[1]>>, e |-> t.e,
     m |-> [j \in 1..t.shape[2] |-> [i \in 1..t.shape[1] |-> t.m[i][j]]]]

zeros(shape) ==
    [shape |-> shape, e |-> 0,
     m |-> [i \in 1..(IF Len(shape) = 1 THEN 1 ELSE shape[1]) |->
              [j \in 1..shape[Len(shape)] |-> 0]]]

zeros_like(t) == IF Bad(t) THEN ShapeError ELSE zeros(t.shape)

\* scikits.cuda linalg.dot(a, b, transa, transb)
dot(a, b, transa, transb) ==
    IF Bad(a) \/ Bad(b) THEN ShapeError
    ELSE IF Len(a.shape) # 2 \/ Len(b.shape) # 2 THEN ShapeError
    ELSE LET x == IF transa THEN Transposed(a) ELSE a
             y == IF transb THEN Transposed(b) ELSE b
         IN  IF x.shape[2] # y.shape[1] THEN ShapeError
             ELSE Norm([shape |-> <<x.shape[1], y.shape[2]>>, e |-> x.e + y.e,
                        m |-> [i \in 1..x.shape[1] |-> [j \in 1..y.shape[2] |->
                                 SumTo([k \in 1..x.shape[2] |-> x.m[i][k] * y.m[k][j]],
                                       x.shape[2])]]])

\* pycuda_ops.matrix.add_vec_to_mat: the vector is added to every row.
add_vec_to_mat(mat, vec) ==
    IF Bad(mat) \/ Bad(vec) THEN ShapeError
    ELSE IF Len(mat.shape) # 2 \/ Len(vec.shape) # 1 THEN ShapeError
    ELSE IF mat.shape[2] # vec.shape[1] THEN ShapeError
    ELSE LET e == IF mat.e >= vec.e THEN mat.e ELSE vec.e
         IN  Norm([shape |-> mat.shape, e |-> e,
                   m |-> [i \in 1..mat.shape[1] |-> [j \in 1..mat.shape[2] |->
                            At(mat, e, i, j) + At(vec, e, 1, j)]]])

\* pycuda_ops.reductions.matrix_sum_out_axis(mat, 0): the column sums.
matrix_sum_out_axis(mat) ==
    IF Bad(mat) THEN ShapeError
    ELSE IF Len(mat.shape) # 2 THEN ShapeError
    ELSE Norm([shape |-> <<mat.shape[2]>>, e |-> mat.e,
               m |-> <<[j \in 1..mat.shape[2] |->
                          SumTo([i \in 1..mat.shape[1] |-> mat.m[i][j]], mat.shape[1])]>>])

\* GPUArray._axpbyz(selffac, other, otherfac, out): selffac*self + otherfac*other.
\* The factors are integers here.
axpbyz(self, selffac, other, otherfac) ==
    IF Bad(self) \/ Bad(other) THEN ShapeError
    ELSE IF self.shape # other.shape THEN ShapeError
    ELSE LET e == IF self.e >= other.e THEN self.e ELSE other.e
         IN  Norm([shape |-> self.shape, e |-> e,
                   m |-> [i \in 1..NRows(self) |-> [j \in 1..NCols(self) |->
                            selffac * At(self, e, i, j) + otherfac * At(other, e, i, j)]]])

\* GPUArray.__mul__ of two arrays: the elementwise product.
mul(a, b) ==
    IF Bad(a) \/ Bad(b) THEN ShapeError
    ELSE IF a.shape # b.shape THEN ShapeError
    ELSE Norm([shape |-> a.shape, e |-> a.e + b.e,
               m |-> [i \in 1..NRows(a) |-> [j \in 1..NCols(a) |-> a.m[i][j] * b.m[i][j]]]])

\* pycuda_ops.elementwise.sign
sign(t) ==
    IF Bad(t) THEN ShapeError
    ELSE [shape |-> t.shape, e |-> 0,
          m |-> [i \in 1..NRows(t) |-> [j \in 1..NCols(t) |->
                   IF t.m[i][j] > 0 THEN 1 ELSE IF t.m[i][j] < 0 THEN -1 ELSE 0]]]

\* ------------------------------------------------------------ python values
None == [none |-> TRUE]

IsNone(x) == "none" \in DOMAIN x

\* An optional argument that is given.
Some(x) == [some |-> x]

\* A python int where a list or an object may stand too, and a python list.
PyInt(k) == [int |-> k]

PyList(s) == [list |-> s]

PyObj(o) == [obj |-> o]

IsInt(x) == "int" \in DOMAIN x

IsList(x) == "list" \in DOMAIN x

\* A raised exception: its class and the method that raised it.
Raise(kind, where) == [exc |-> kind, at |-> where]

IsExc(x) == "exc" \in DOMAIN x

\* The float k / sqrt(n), kept symbolic.
OverSqrt(k, n) == [num |-> k, sqrt_of |-> n]

\* The float k * sqrt(6 / fan), kept symbolic.
Bengio(k, fan) == [times |-> k, fan |-> fan]

\* An array of the given shape with entries in -1..1, fixed by the seed s:
\* one outcome of curand, or an array a caller supplies.
Pattern(shape, s) ==
    [shape |-> shape, e |-> 0,
     m |-> [i \in 1..(IF Len(shape) = 1 THEN 1 ELSE shape[1]) |->
              [j \in 1..shape[Len(shape)] |-> ((i + 2 * j + s) % 3) - 1]]]

RECURSIVE Concat(_)
Concat(ss) == IF ss = <<>> THEN <<>> ELSE Head(ss) \o Concat(Tail(ss))

Reverse(s) == [k \in 1..Len(s) |-> s[Len(s) + 1 - k]]

\* The slice s[0:j-i]: what s[i:j] becomes if the running offset i is never
\* advanced, so that every layer is handed the first slice.
Slice_from_start(s, i, j) ==
    IF j - i >= Len(s) THEN s ELSE SubSeq(s, 1, j - i)

\* Python's s[i:j] for 0 <= i <= j, cut at the end of s.
Slice(s, i, j) ==
    LET hi == IF j > Len(s) THEN Len(s) ELSE j
    IN  IF i >= hi THEN <<>> ELSE SubSeq(s, i + 1, hi)

\* Python's s[-n:]; s[-0:] is the whole of s.
LastN(s, n) == IF n = 0 \/ n >= Len(s) THEN s ELSE SubSeq(s, Len(s) - n + 1, Len(s))

\* --------------------------------------------------------------- HiddenLayer
\* HiddenLayer._set_weights_scale
set_weights_scale(activation_function, n_in, n_units) ==
    IF activation_function \in {"tanh", "relu", "linear"} THEN Bengio(1, n_in + n_units)
    ELSE IF activation_function = "sigmoid" THEN Bengio(4, n_in + n_units)
    ELSE Raise("ValueError", "HiddenLayer._set_weights_scale")

\* HiddenLayer.__init__.  parameters is None or the pair [W, b]; lr_multiplier
\* is None or Some(the sequence); rnd is the outcome of curand((n_in, n_units)).
HiddenLayer_init(n_in, n_units, activation_function, dropout, parameters, lr_multiplier, l1_penalty_weight, l2_penalty_weight, rnd) ==
    IF activation_function \notin {"sigmoid", "tanh", "relu", "linear"}
    THEN Raise("ValueError", "HiddenLayer._resolve_activation_fct")
    ELSE LET W == IF IsNone(parameters) THEN rnd ELSE parameters.W
             b == IF IsNone(parameters) THEN zeros(<<n_units>>) ELSE parameters.b
         IN  IF W.shape # <<n_in, n_units>> \/ b.shape # <<n_units>>
             THEN Raise("AssertionError", "HiddenLayer.__init__")
             ELSE [class |-> "HiddenLayer",
                   activation_function |-> activation_function,
                   weights_scale |-> set_weights_scale(activation_function, n_in, n_units),
                   W |-> W, b |-> b, n_in |-> n_in, n_units |-> n_units,
                   lr_multiplier |-> IF IsNone(lr_multiplier)
                                     THEN <<OverSqrt(1, n_in), OverSqrt(1, n_in)>>
                                     ELSE lr_multiplier.some,
                   l1_penalty_weight |-> l1_penalty_weight,
                   l2_penalty_weight |-> l2_penalty_weight,
                   dropout |-> dropout, n_parameters |-> 2]

\* DummyLayer.__init__, with the class attributes it inherits or overrides.
DummyLayer_init(n_in) ==
    [class |-> "DummyLayer", W |-> None, b |-> None, n_in |-> n_in, n_units |-> n_in,
     lr_multiplier |-> <<>>, l1_penalty_weight |-> 0, l2_penalty_weight |-> 0,
     dropout |-> FALSE, n_parameters |-> 0]

\* LogisticLayer.__init__: no shape is asserted.
LogisticLayer_init(n_in, n_out, parameters, l1_penalty_weight, l2_penalty_weight, lr_multiplier, test_error_fct, rnd) ==
    [class |-> "LogisticLayer",
     weights_scale |-> Bengio(4, n_in + n_out),
     W |-> IF IsNone(parameters) THEN rnd ELSE parameters.W,
     b |-> IF IsNone(parameters) THEN zeros(<<n_out>>) ELSE parameters.b,
     n_in |-> n_in, n_out |-> n_out,
     test_error_fct |-> test_error_fct,
     l1_penalty_weight |-> l1_penalty_weight,
     l2_penalty_weight |-> l2_penalty_weight,
     lr_multiplier |-> IF IsNone(lr_multiplier)
                       THEN <<OverSqrt(1, n_in), OverSqrt(1, n_in)>>
                       ELSE lr_multiplier.some,
     n_parameters |-> 2]

\* ------------------------------------------------- elementwise collaborators
\* pycuda_ops.elementwise relu and linear, applied in place.
apply_f(activation_function, x) ==
    IF Bad(x) THEN ShapeError
    ELSE IF activation_function = "relu"
    THEN Norm([x EXCEPT !.m = [i \in 1..NRows(x) |-> [j \in 1..NCols(x) |->
                                 IF x.m[i][j] > 0 THEN x.m[i][j] ELSE 0]]])
    ELSE x

\* pycuda_ops.elementwise df_relu and df_linear, from the activations.
apply_df(activation_function, f) ==
    IF Bad(f) THEN ShapeError
    ELSE [shape |-> f.shape, e |-> 0,
          m |-> [i \in 1..NRows(f) |-> [j \in 1..NCols(f) |->
                   IF activation_function = "relu" /\ f.m[i][j] <= 0 THEN 0 ELSE 1]]]

\* The binary mask sample_dropout_mask draws for an array of this shape, fixed
\* by the seed s.
MaskPattern(shape, s) ==
    [shape |-> shape, e |-> 0,
     m |-> [i \in 1..shape[1] |-> [j \in 1..shape[2] |-> (i + j + s) % 2]]]

\* pycuda_ops.elementwise.nan_to_zeros; the arrays enumerated here hold no NaN.
nan_to_zeros(t) == t

\* numpy argmax of one row: the first index of the largest entry.
argmax(row, n) ==
    CHOOSE j \in 1..n : /\ \A k \in 1..n : row[k] <= row[j]
                        /\ \A k \in 1..(j - 1) : row[k] < row[j]

\* pycuda_ops.softmax.softmax, kept to what is used of it: each row is a
\* distribution (its entries sum to 1) whose largest entry sits where the
\* largest score does.  All the mass is put there.
softmax(x) ==
    IF Bad(x) THEN ShapeError
    ELSE [shape |-> x.shape, e |-> 0,
          m |-> [i \in 1..NRows(x) |-> [j \in 1..NCols(x) |->
                   IF j = argmax(x.m[i], NCols(x)) THEN 1 ELSE 0]]]

\* pycuda_ops.softmax.cross_entropy, kept symbolic; mean is loss.mean().
cross_entropy(activations, targets, average) ==
    [cross_entropy_of |-> <<activations, targets>>, mean |-> average]

\* float(weight) * gpuarray.sum(abs(W)).get(), as an array of one entry.
l1_penalty(self) ==
    Norm([shape |-> <<1>>, e |-> self.W.e,
          m |-> <<<<self.l1_penalty_weight *
                    SumTo([i \in 1..NRows(self.W) |->
                             SumTo([j \in 1..NCols(self.W) |->
                                      IF self.W.m[i][j] < 0 THEN -self.W.m[i][j]
                                      ELSE self.W.m[i][j]], NCols(self.W))],
                          NRows(self.W))>>>>])

\* float(weight) * .5 * gpuarray.sum(W ** 2.).get(), as an array of one entry.
l2_penalty(self) ==
    Norm([shape |-> <<1>>, e |-> 2 * self.W.e + 1,
          m |-> <<<<self.l2_penalty_weight *
                    SumTo([i \in 1..NRows(self.W) |->
                             SumTo([j \in 1..NCols(self.W) |->
                                      self.W.m[i][j] * self.W.m[i][j]], NCols(self.W))],
                          NRows(self.W))>>>>])

\* ------------------------------------------------------- HiddenLayer methods
\* HiddenLayer.parameters (getter)
HiddenLayer_parameters(self) == <<self.W, self.b>>

\* HiddenLayer.parameters (setter): whether b is moved to the device is
\* decided by the type of value[0].  to_gpu of an array that is on the device
\* already is outside pycuda's contract: it copies (u) or raises (~u).
HiddenLayer_set_parameters(self, value, u) ==
    LET W == IF isinstance_GPUArray(value[1]) THEN value[1] ELSE to_gpu(value[1])
    IN  IF isinstance_GPUArray(value[1]) THEN [self |-> [self EXCEPT !.W = W, !.b = value[2]]]
        ELSE IF isinstance_GPUArray(value[2]) /\ ~u
        THEN [exc |-> "TypeError", at |-> "HiddenLayer.parameters",
              self |-> [self EXCEPT !.W = W]]
        ELSE [self |-> [self EXCEPT !.W = W, !.b = to_gpu(value[2])]]

\* The end of HiddenLayer.update_parameters: W and b are what the two
\* _axpbyz calls wrote, W first; the second is not reached when the first
\* fails.
updated_in_place(self, W, b) ==
    IF IsErr(W)
    THEN [exc |-> "ShapeMismatch", at |-> "HiddenLayer.update_parameters", self |-> self]
    ELSE IF IsErr(b)
    THEN [exc |-> "ShapeMismatch", at |-> "HiddenLayer.update_parameters",
          self |-> [self EXCEPT !.W = W]]
    ELSE [self |-> [self EXCEPT !.W = W, !.b = b]]

\* HiddenLayer.update_parameters: values is a sequence of [g, mult]; each
\* parameter is overwritten in place, W before b.
HiddenLayer_update_parameters(self, values) ==
    IF Len(values) # self.n_parameters
    THEN [exc |-> "AssertionError", at |-> "HiddenLayer.update_parameters", self |-> self]
    ELSE updated_in_place(self, axpbyz(self.W, 1, values[1].g, values[1].mult),
                          axpbyz(self.b, 1, values[2].g, values[2].mult))

\* An architecture whose n_units entry is the weight array itself.
HiddenLayer_architecture_of_weights(self) ==
    [class |-> self.class, n_in |-> self.n_in, n_units |-> self.W,
     activation_function |-> IF "activation_function" \in DOMAIN self
                             THEN self.activation_function ELSE "None"]

\* HiddenLayer.architecture, which DummyLayer inherits; a layer without the
\* attribute activation_function has None there, kept as its text.
HiddenLayer_architecture(self) ==
    [class |-> self.class, n_in |-> self.n_in, n_units |-> self.n_units,
     activation_function |-> IF "activation_function" \in DOMAIN self
                             THEN self.activation_function ELSE "None"]

\* The end of HiddenLayer.feed_forward with the halving taken whenever the
\* layer has dropout, in training as under prediction.
dropout_cache_always_halved(self, activations, prediction, s) ==
    IF IsErr(activations) THEN Raise("ShapeMismatch", "HiddenLayer.feed_forward")
    ELSE IF self.dropout THEN [cache |-> <<Norm([activations EXCEPT !.e = @ + 1])>>]
    ELSE [cache |-> <<activations>>]

\* The end of HiddenLayer.feed_forward, from the activations self.f left:
\* the halving under prediction, or the mask under training, which
\* sample_dropout_mask also multiplies into the activations.
dropout_cache(self, activations, prediction, s) ==
    IF IsErr(activations) THEN Raise("ShapeMismatch", "HiddenLayer.feed_forward")
    ELSE IF self.dropout /\ prediction THEN [cache |-> <<Norm([activations EXCEPT !.e = @ + 1])>>]
    ELSE IF self.dropout /\ ~prediction
    THEN [cache |-> <<mul(activations, MaskPattern(activations.shape, s)),
                      MaskPattern(activations.shape, s)>>]
    ELSE [cache |-> <<activations>>]

\* HiddenLayer.feed_forward; s fixes the mask sample_dropout_mask draws.
HiddenLayer_feed_forward(self, input, prediction, s) ==
    dropout_cache(self,
                  apply_f(self.activation_function,
                          add_vec_to_mat(dot(input, self.W, FALSE, FALSE), self.b)),
                  prediction, s)

\* df_W -= self.l1_penalty_weight * sign(self.W), under its condition
l1_penalty_gradient(self, df_W) ==
    IF self.l1_penalty_weight # 0
    THEN axpbyz(df_W, 1, sign(self.W), -self.l1_penalty_weight)
    ELSE df_W

\* df_W -= self.l2_penalty_weight * self.W, under its condition
l2_penalty_gradient(self, df_W) ==
    IF self.l2_penalty_weight # 0
    THEN axpbyz(df_W, 1, self.W, -self.l2_penalty_weight)
    ELSE df_W

\* return (df_W, df_b), df_input; a device operation that failed on the way
\* has raised at where.
gradients_or_raise(df_W, df_b, df_input, where) ==
    IF IsErr(df_W) \/ IsErr(df_b) \/ IsErr(df_input) THEN Raise("ShapeMismatch", where)
    ELSE [grads |-> <<df_W, df_b>>, df_input |-> df_input]

\* The gradients backprop computes from delta, in HiddenLayer.backprop and
\* again in LogisticLayer.backprop.
gradients_of_delta(self, input, delta, where) ==
    gradients_or_raise(
        l2_penalty_gradient(self, l1_penalty_gradient(self, dot(input, delta, TRUE, FALSE))),
        matrix_sum_out_axis(delta),
        dot(delta, self.W, FALSE, TRUE),
        where)

\* HiddenLayer.backprop; cache is None or [some |-> the tuple feed_forward
\* returned].  Without a cache it calls feed_forward with a keyword, dropout,
\* that feed_forward does not take.
HiddenLayer_backprop(self, input, df_output, cache) ==
    IF IsNone(cache) THEN Raise("TypeError", "HiddenLayer.backprop")
    ELSE IF self.dropout /\ Len(cache.some) # 2
    THEN Raise("UnboundLocalError", "HiddenLayer.backprop")
    ELSE gradients_of_delta(
             self, input,
             mul(apply_df(self.activation_function, cache.some[1]),
                 IF self.dropout THEN mul(df_output, cache.some[2]) ELSE df_output),
             "HiddenLayer.backprop")

\* -------------------------------------------------------- DummyLayer methods
\* DummyLayer.parameters (getter)
DummyLayer_parameters(self) == <<>>

\* DummyLayer.parameters (setter): pass
DummyLayer_set_parameters(self, value, u) == [self |-> self]

\* DummyLayer.update_parameters: pass
DummyLayer_update_parameters(self, values) == [self |-> self]

\* DummyLayer.feed_forward
DummyLayer_feed_forward(self, input, prediction) ==
    IF Len(input.shape) < 2 \/ input.shape[2] # self.n_in
    THEN Raise("AssertionError", "DummyLayer.feed_forward")
    ELSE [cache |-> <<input>>]

\* DummyLayer.backprop
DummyLayer_backprop(self, input, df_output, cache) ==
    [grads |-> <<>>, df_input |-> df_output]

\* ------------------------------------------------ dispatch on the layer class
Layer_parameters(self) ==
    IF self.class = "DummyLayer" THEN DummyLayer_parameters(self)
    ELSE HiddenLayer_parameters(self)

Layer_set_parameters(self, value, u) ==
    IF self.class = "DummyLayer" THEN DummyLayer_set_parameters(self, value, u)
    ELSE HiddenLayer_set_parameters(self, value, u)

Layer_update_parameters(self, values) ==
    IF self.class = "DummyLayer" THEN DummyLayer_update_parameters(self, values)
    ELSE HiddenLayer_update_parameters(self, values)

Layer_feed_forward(self, input, prediction, s) ==
    IF self.class = "DummyLayer" THEN DummyLayer_feed_forward(self, input, prediction)
    ELSE HiddenLayer_feed_forward(self, input, prediction, s)

Layer_backprop(self, input, df_output, cache) ==
    IF self.class = "DummyLayer" THEN DummyLayer_backprop(self, input, df_output, cache)
    ELSE HiddenLayer_backprop(self, input, df_output, cache)

\* ----------------------------------------------------- LogisticLayer methods
\* LogisticLayer.architecture
LogisticLayer_architecture(self) ==
    [class |-> self.class, n_in |-> self.n_in, n_out |-> self.n_out]

\* return activations, unless a device operation failed on the way
activations_or_raise(activations, where) ==
    IF IsErr(activations) THEN Raise("ShapeMismatch", where)
    ELSE [activations |-> activations]

\* LogisticLayer.feed_forward
LogisticLayer_feed_forward(self, input, prediction) ==
    activations_or_raise(softmax(add_vec_to_mat(dot(input, self.W, FALSE, FALSE), self.b)),
                         "LogisticLayer.feed_forward")

\* if cache is not None: activations = cache
\* else: activations = self.feed_forward(input, prediction=prediction)
cached_activations(self, input, cache, prediction) ==
    IF IsNone(cache) THEN LogisticLayer_feed_forward(self, input, prediction)
    ELSE [activations |-> cache.some]

\* LogisticLayer.backprop, from the activations on.
LogisticLayer_backprop_of(self, input, targets, fwd) ==
    IF IsExc(fwd) THEN fwd
    ELSE gradients_of_delta(self, input,
                            nan_to_zeros(axpbyz(fwd.activations, 1, targets, -1)),
                            "LogisticLayer.backprop")

\* LogisticLayer.backprop; cache is None or Some(activations).
LogisticLayer_backprop(self, input, targets, cache) ==
    LogisticLayer_backprop_of(self, input, targets,
                              cached_activations(self, input, cache, FALSE))

\* LogisticLayer.cross_entropy_error, from the activations on.
LogisticLayer_cross_entropy_of(targets, average, fwd) ==
    IF IsExc(fwd) THEN fwd
    ELSE [loss |-> cross_entropy(fwd.activations, targets, average)]

\* LogisticLayer.cross_entropy_error
LogisticLayer_cross_entropy_error(self, input, targets, average, cache, prediction) ==
    LogisticLayer_cross_entropy_of(targets, average,
                                   cached_activations(self, input, cache, prediction))

\* ndarray.mean() of the numpy scalar np.sum returned: the mean over its one
\* element, as the fraction num / den.
scalar_mean(x) == [num |-> x, den |-> 1]

\* np.sum(activations.get().argmax(1) != targets.get().argmax(1))
count_mismatches(a, targets) ==
    Cardinality({i \in 1..NRows(a) :
                   argmax(a.m[i], NCols(a)) # argmax(targets.m[i], NCols(targets))})

\* LogisticLayer.class_error, from the activations on.
LogisticLayer_class_error_of(targets, average, fwd) ==
    IF IsExc(fwd) THEN fwd
    ELSE IF NRows(fwd.activations) # NRows(targets)
    THEN Raise("ShapeMismatch", "LogisticLayer.class_error")
    ELSE [error |-> IF average THEN scalar_mean(count_mismatches(fwd.activations, targets))
                    ELSE [num |-> count_mismatches(fwd.activations, targets), den |-> 1]]

\* LogisticLayer.class_error; the result is the fraction num / den.
LogisticLayer_class_error(self, input, targets, average, cache, prediction) ==
    LogisticLayer_class_error_of(targets, average,
                                 cached_activations(self, input, cache, prediction))

\* ------------------------------------------------------- MultitaskTopLayer
Min(a, b) == IF a <= b THEN a ELSE b

\* The end of MultitaskTopLayer.__init__, from the tasks it built.
MultitaskTopLayer_of(n_in, n_out, n_tasks, tasks, task_weights, l1_penalty_weight, l2_penalty_weight) ==
    [class |-> "MultitaskTopLayer",
     n_in |-> n_in, n_out |-> n_out, n_tasks |-> n_tasks, tasks |-> tasks,
     task_weights |-> IF IsNone(task_weights) THEN [t \in 1..n_tasks |-> 1]
                      ELSE task_weights.list,
     l1_penalty_weight |-> [t \in 1..n_tasks |-> l1_penalty_weight],
     l2_penalty_weight |-> [t \in 1..n_tasks |-> l2_penalty_weight],
     n_parameters |-> SumTo([t \in 1..Len(tasks) |-> tasks[t].n_parameters], Len(tasks)),
     lr_multiplier |-> Concat([t \in 1..Len(tasks) |-> tasks[t].lr_multiplier])]

\* MultitaskTopLayer.__init__.  n_in and n_tasks are None or PyInt, n_out is
\* None, PyInt or PyList, tasks and task_weights are None or PyList;
\* test_error_fct and the penalty weights are scalars; task t draws its
\* weights with the seed seed + t.
MultitaskTopLayer_init(n_in, n_out, test_error_fct, l1_penalty_weight, l2_penalty_weight, tasks, task_weights, n_tasks, lr_multiplier, seed) ==
    IF IsNone(tasks) /\ (IsNone(n_in) \/ IsNone(n_out))
    THEN Raise("ValueError", "MultitaskTopLayer.__init__")
    ELSE IF IsNone(tasks) \/ tasks.list = <<>>
    THEN IF IsNone(n_in) \/ IsNone(n_out) \/ (IsNone(n_tasks) /\ IsInt(n_out))
         THEN Raise("TypeError", "MultitaskTopLayer.__init__")
         ELSE LET self_n_out == IF IsNone(n_tasks) THEN n_out.list
                                ELSE [t \in 1..n_tasks.int |-> n_out.int]
                  self_n_tasks == IF IsNone(n_tasks) THEN Len(n_out.list) ELSE n_tasks.int
              IN  MultitaskTopLayer_of(
                      n_in.int, self_n_out, self_n_tasks,
                      [t \in 1..Min(Len(self_n_out), self_n_tasks) |->
                         LogisticLayer_init(n_in.int, self_n_out[t], None,
                                            l1_penalty_weight, l2_penalty_weight,
                                            lr_multiplier, test_error_fct,
                                            Pattern(<<n_in.int, self_n_out[t]>>, seed + t))],
                      task_weights, l1_penalty_weight, l2_penalty_weight)
    \* tasks given: self.tasks is read before it is ever assigned
    ELSE Raise("AttributeError", "MultitaskTopLayer.__init__")

\* MultitaskTopLayer.parameters (getter)
MultitaskTopLayer_parameters(self) ==
    Concat([t \in 1..Len(self.tasks) |-> HiddenLayer_parameters(self.tasks[t])])

\* self.tasks[t] after the call r on it, which returned or raised.
task_stored(self, t, r) ==
    IF IsExc(r) THEN [exc |-> r.exc, at |-> r.at, self |-> [self EXCEPT !.tasks[t] = r.self]]
    ELSE [self |-> [self EXCEPT !.tasks[t] = r.self]]

\* The loop of the MultitaskTopLayer.parameters setter, from task t on; acc
\* is the head so far, or the exception a task's setter raised.
RECURSIVE MultitaskTopLayer_set_from(_, _, _, _, _)
MultitaskTopLayer_set_from(acc, value, t, i, u) ==
    IF IsExc(acc) \/ t > Len(acc.self.tasks) THEN acc
    ELSE MultitaskTopLayer_set_from(
             task_stored(acc.self, t,
                         HiddenLayer_set_parameters(
                             acc.self.tasks[t],
                             Slice(value, i, i + acc.self.tasks[t].n_parameters), u)),
             value, t + 1, i + acc.self.tasks[t].n_parameters, u)

\* MultitaskTopLayer.parameters (setter)
MultitaskTopLayer_set_parameters(self, value, u) ==
    IF Len(value) # self.n_parameters
    THEN [exc |-> "AssertionError", at |-> "MultitaskTopLayer.parameters", self |-> self]
    ELSE MultitaskTopLayer_set_from([self |-> self], value, 1, 0, u)

\* The loop of MultitaskTopLayer.update_parameters, from task t on.
RECURSIVE MultitaskTopLayer_update_from(_, _, _, _)
MultitaskTopLayer_update_from(acc, value, t, i) ==
    IF IsExc(acc) \/ t > Len(acc.self.tasks) THEN acc
    ELSE MultitaskTopLayer_update_from(
             task_stored(acc.self, t,
                         HiddenLayer_update_parameters(
                             acc.self.tasks[t],
                             Slice(value, i, i + acc.self.tasks[t].n_parameters))),
             value, t + 1, i + acc.self.tasks[t].n_parameters)

\* MultitaskTopLayer.update_parameters
MultitaskTopLayer_update_parameters(self, value) ==
    IF Len(value) # self.n_parameters
    THEN [exc |-> "AssertionError", at |-> "MultitaskTopLayer.update_parameters",
          self |-> self]
    ELSE MultitaskTopLayer_update_from([self |-> self], value, 1, 0)

\* MultitaskTopLayer.architecture
MultitaskTopLayer_architecture(self) ==
    [t \in 1..Len(self.tasks) |-> LogisticLayer_architecture(self.tasks[t])]

\* activations.append(activations_task), unless the task's feed_forward raised
activations_appended(activations, r) ==
    IF IsExc(r) THEN r ELSE [activations |-> Append(activations, r.activations)]

\* The loop of MultitaskTopLayer.feed_forward, from task t on; acc holds the
\* activations so far, or is the exception a task raised.
RECURSIVE MultitaskTopLayer_forward_from(_, _, _, _, _)
MultitaskTopLayer_forward_from(self, input, prediction, t, acc) ==
    IF IsExc(acc) \/ t > Len(self.tasks) THEN acc
    ELSE MultitaskTopLayer_forward_from(
             self, input, prediction, t + 1,
             activations_appended(acc.activations,
                                  LogisticLayer_feed_forward(self.tasks[t], input, prediction)))

\* MultitaskTopLayer.feed_forward
MultitaskTopLayer_feed_forward(self, input, prediction) ==
    MultitaskTopLayer_forward_from(self, input, prediction, 1, [activations |-> <<>>])

\* GPUArray.mul_add(selffac, other, otherfac): RETURNS selffac*self +
\* otherfac*other in a new array; self is left as it was.
mul_add(self, selffac, other, otherfac) == axpbyz(self, selffac, other, otherfac)

\* What df_input holds after the statement
\*     df_input.mul_add(1., df_input_task, task_weight)
\* whose result is not assigned to anything.
accumulate_df_input(df_input, df_input_task, task_weight) == df_input

\* One pass of the loop of MultitaskTopLayer.backprop, after the task's
\* backprop returned r: the mul_add statement and gradients.extend.
task_gradients_added(acc, r, task_weight) ==
    IF IsExc(r) THEN r
    ELSE IF IsErr(mul_add(acc.df_input, 1, r.df_input, task_weight))
    THEN Raise("ShapeMismatch", "MultitaskTopLayer.backprop")
    ELSE [grads |-> acc.grads \o r.grads,
          df_input |-> accumulate_df_input(acc.df_input, r.df_input, task_weight)]

\* The loop of MultitaskTopLayer.backprop over izip(targets, cache, tasks,
\* task_weights), from position t to n; acc holds gradients and df_input so
\* far, or is the exception a task raised.
RECURSIVE MultitaskTopLayer_backprop_from(_, _, _, _, _, _, _)
MultitaskTopLayer_backprop_from(self, input, targets, cache, t, n, acc) ==
    IF IsExc(acc) \/ t > n THEN acc
    ELSE MultitaskTopLayer_backprop_from(
             self, input, targets, cache, t + 1, n,
             task_gradients_added(
                 acc, LogisticLayer_backprop(self.tasks[t], input, targets[t], cache[t]),
                 self.task_weights[t]))

\* if cache is None: cache = self.n_tasks * [None]
task_caches(self, cache) ==
    IF IsNone(cache) THEN [t \in 1..self.n_tasks |-> None]
    ELSE [t \in 1..Len(cache.some) |-> Some(cache.some[t])]

\* MultitaskTopLayer.backprop; targets is a sequence of arrays, cache is None
\* or Some(the sequence of the tasks' activations).
MultitaskTopLayer_backprop(self, input, targets, cache) ==
    IF Bad(input) THEN Raise("ShapeMismatch", "MultitaskTopLayer.backprop")
    ELSE MultitaskTopLayer_backprop_from(
             self, input, targets, task_caches(self, cache), 1,
             Min(Min(Len(targets), Len(task_caches(self, cache))),
                 Min(Len(self.tasks), Len(self.task_weights))),
             [grads |-> <<>>, df_input |-> zeros_like(input)])

\* loss.append(the task's cross entropy), unless the task raised
loss_appended(loss, r) == IF IsExc(r) THEN r ELSE [loss |-> Append(loss, r.loss)]

\* The loop of MultitaskTopLayer.cross_entropy_error, from position t on.
RECURSIVE MultitaskTopLayer_loss_from(_, _, _, _, _, _, _, _)
MultitaskTopLayer_loss_from(self, input, targets, average, cache, prediction, t, acc) ==
    IF IsExc(acc) \/ t > Min(Min(Len(targets), Len(cache)), Len(self.tasks)) THEN acc
    ELSE MultitaskTopLayer_loss_from(
             self, input, targets, average, cache, prediction, t + 1,
             loss_appended(acc.loss,
                           LogisticLayer_cross_entropy_error(
                               self.tasks[t], input, targets[t], average, cache[t],
                               prediction)))

\* return sum(loss); the sum is kept as the sequence of its terms.
summed(r) == IF IsExc(r) THEN r ELSE [loss |-> [sum_of |-> r.loss]]

\* MultitaskTopLayer.cross_entropy_error with sum_errors=True
MultitaskTopLayer_cross_entropy_error(self, input, targets, average, cache, prediction) ==
    summed(MultitaskTopLayer_loss_from(self, input, targets, average,
                                       task_caches(self, cache), prediction, 1,
                                       [loss |-> <<>>]))

\* --------------------------------------------- dispatch on the top layer class
Top_parameters(self) ==
    IF self.class = "MultitaskTopLayer" THEN MultitaskTopLayer_parameters(self)
    ELSE HiddenLayer_parameters(self)

Top_set_parameters(self, value, u) ==
    IF self.class = "MultitaskTopLayer" THEN MultitaskTopLayer_set_parameters(self, value, u)
    ELSE HiddenLayer_set_parameters(self, value, u)

Top_update_parameters(self, value) ==
    IF self.class = "MultitaskTopLayer" THEN MultitaskTopLayer_update_parameters(self, value)
    ELSE HiddenLayer_update_parameters(self, value)

Top_feed_forward(self, input, prediction) ==
    IF self.class = "MultitaskTopLayer" THEN MultitaskTopLayer_feed_forward(self, input, prediction)
    ELSE LogisticLayer_feed_forward(self, input, prediction)

Top_backprop(self, input, targets, cache) ==
    IF self.class = "MultitaskTopLayer" THEN MultitaskTopLayer_backprop(self, input, targets, cache)
    ELSE LogisticLayer_backprop(self, input, targets, cache)

Top_cross_entropy_error(self, input, targets, average, cache, prediction) ==
    IF self.class = "MultitaskTopLayer"
    THEN MultitaskTopLayer_cross_entropy_error(self, input, targets, average, cache, prediction)
    ELSE LogisticLayer_cross_entropy_error(self, input, targets, average, cache, prediction)

\* The sum of the penalties evaluate adds for the top layer: a LogisticLayer's
\* own, under its weight; a MultitaskTopLayer's weight is a list, which is
\* true whenever it has a task, and its penalty is the sum over its tasks.
RECURSIVE AddAll(_)
AddAll(xs) == IF xs = <<>> THEN zeros(<<1>>) ELSE axpbyz(Head(xs), 1, AddAll(Tail(xs)), 1)

Penalties(self) ==
    IF self.class = "DummyLayer" THEN <<>>
    ELSE IF self.class = "MultitaskTopLayer"
    THEN Concat([t \in 1..Len(self.tasks) |->
                   <<l1_penalty(self.tasks[t]), l2_penalty(self.tasks[t])>>])
    ELSE (IF self.l1_penalty_weight # 0 THEN <<l1_penalty(self)>> ELSE <<>>)
         \o (IF self.l2_penalty_weight # 0 THEN <<l2_penalty(self)>> ELSE <<>>)

\* ------------------------------------------------------------------ NeuralNet
\* n_in_hidden = self.hidden_layers[-1].n_units if i > 0 else n_in
n_in_hidden(hidden_layers, k, n_in) ==
    IF k > 1 THEN hidden_layers[Len(hidden_layers)].n_units ELSE n_in

\* self.hidden_layers.append(HiddenLayer(..)), unless the constructor raised
layer_appended(hidden_layers, hl) ==
    IF IsExc(hl) THEN hl ELSE [hidden_layers |-> Append(hidden_layers, hl)]

\* The loop of NeuralNet.__init__ over enumerate(layers), from position k on
\* (k = i + 1); acc holds self.hidden_layers so far, or is the exception
\* raised.  An element is PyObj(a layer) or PyInt(a unit count); the layer
\* built at position k draws its weights with the seed seed + k.
RECURSIVE build_hidden_layers(_, _, _, _, _, _, _, _, _)
build_hidden_layers(layers, k, acc, activation_function, dropout, n_in, l1_hidden, l2_hidden, seed) ==
    IF IsExc(acc) \/ k > Len(layers) THEN acc
    ELSE IF ~IsInt(layers[k])
    THEN build_hidden_layers(layers, k + 1,
                             [hidden_layers |-> Append(acc.hidden_layers, layers[k].obj)],
                             activation_function, dropout, n_in, l1_hidden, l2_hidden, seed)
    ELSE IF k > 1 /\ acc.hidden_layers = <<>> THEN Raise("IndexError", "NeuralNet.__init__")
    ELSE IF k > Len(dropout) \/ k > Len(l1_hidden) \/ k > Len(l2_hidden)
    THEN Raise("IndexError", "NeuralNet.__init__")
    ELSE build_hidden_layers(
             layers, k + 1,
             layer_appended(
                 acc.hidden_layers,
                 HiddenLayer_init(n_in_hidden(acc.hidden_layers, k, n_in), layers[k].int,
                                  activation_function, dropout[k], None, None,
                                  l1_hidden[k], l2_hidden[k],
                                  Pattern(<<n_in_hidden(acc.hidden_layers, k, n_in),
                                            layers[k].int>>, seed + k))),
             activation_function, dropout, n_in, l1_hidden, l2_hidden, seed)

\* self.TopLayerClass(n_in_top_layer, n_out, l1_penalty_weight=..,
\* l2_penalty_weight=.., **kwargs); kwargs is [test_error_fct, task_weights,
\* n_tasks], the last two None when not passed.
TopLayerClass_init(TopLayerClass, n_in_top_layer, n_out, l1, l2, kwargs, seed) ==
    IF TopLayerClass = "MultitaskTopLayer"
    THEN MultitaskTopLayer_init(PyInt(n_in_top_layer), n_out, kwargs.test_error_fct, l1, l2,
                                None, kwargs.task_weights, kwargs.n_tasks, None, seed)
    ELSE IF ~IsNone(kwargs.task_weights) \/ ~IsNone(kwargs.n_tasks) \/ ~IsInt(n_out)
    THEN Raise("TypeError", "LogisticLayer.__init__")
    ELSE LogisticLayer_init(n_in_top_layer, n_out.int, None, l1, l2, None,
                            kwargs.test_error_fct,
                            Pattern(<<n_in_top_layer, n_out.int>>, seed))

\* sum(hl.n_parameters for hl in self.hidden_layers) + self.top_layer.n_parameters
sum_n_parameters(hidden_layers, top_layer) ==
    SumTo([k \in 1..Len(hidden_layers) |-> hidden_layers[k].n_parameters],
          Len(hidden_layers)) + top_layer.n_parameters

\* self.l1_penalty_weight_hidden, self.l2_penalty_weight_hidden
penalty_weight_hidden(weight, n_layers) ==
    IF IsInt(weight) THEN [k \in 1..n_layers |-> weight.int]
    ELSE Slice(weight.list, 0, Len(weight.list) - 1)

\* self.l1_penalty_weight_output, self.l2_penalty_weight_output
penalty_weight_output(weight) ==
    IF IsInt(weight) THEN weight.int ELSE weight.list[Len(weight.list)]

\* dropout, made a list when it is not one
dropout_list(dropout, n_layers) ==
    IF IsList(dropout) THEN dropout.list
    ELSE IF n_layers > 0 THEN [k \in 1..n_layers |-> dropout.bool]
    ELSE <<FALSE>>

\* n_in_top_layer = self.n_units_hidden[-1] if self.n_units_hidden else n_in
n_in_top_layer(hidden_layers, n_in) ==
    IF hidden_layers # <<>> THEN hidden_layers[Len(hidden_layers)].n_units ELSE n_in

\* The end of NeuralNet.__init__, from self.n_in = self.hidden_layers[0].n_in
\* on; top is the top layer, or the exception its constructor raised.
NeuralNet_of(n_layers, hidden_layers, top) ==
    IF IsExc(top) THEN top
    ELSE IF hidden_layers = <<>> THEN Raise("IndexError", "NeuralNet.__init__")
    ELSE [n_layers |-> n_layers,
          hidden_layers |-> hidden_layers,
          top_layer |-> top,
          n_in |-> hidden_layers[1].n_in,
          n_out |-> top.n_out,
          n_parameters |-> sum_n_parameters(hidden_layers, top),
          lr_multiplier |->
              Concat([k \in 1..Len(hidden_layers) |-> hidden_layers[k].lr_multiplier])
              \o top.lr_multiplier]

\* NeuralNet.__init__ after the loop over layers, which left built.
NeuralNet_with_layers(TopLayerClass, n_layers, built, top_layer, n_in, n_out, l1_output, l2_output, kwargs, seed) ==
    IF IsExc(built) THEN built
    ELSE NeuralNet_of(n_layers, built.hidden_layers,
                      IF IsNone(top_layer)
                      THEN TopLayerClass_init(TopLayerClass,
                                              n_in_top_layer(built.hidden_layers, n_in),
                                              n_out, l1_output, l2_output, kwargs, seed)
                      ELSE top_layer.obj)

\* NeuralNet.__init__.  layers is PyList(the layer specs) or PyInt; top_layer
\* is None, PyObj(a top layer) or PyInt; dropout is [bool |-> b] or PyList;
\* the penalty weights are PyInt (a scalar) or PyList; n_out is PyInt or PyList.
NeuralNet_init(TopLayerClass, layers, top_layer, activation_function, dropout, n_in, n_out, l1_penalty_weight, l2_penalty_weight, kwargs, seed) ==
    IF IsInt(layers) THEN Raise("TypeError", "NeuralNet.__init__")
    ELSE IF \/ IsList(l1_penalty_weight)
               /\ Len(l1_penalty_weight.list) # Len(layers.list) + 1
            \/ IsList(l2_penalty_weight)
               /\ Len(l2_penalty_weight.list) # Len(layers.list) + 1
    THEN Raise("ValueError", "NeuralNet.__init__")
    ELSE NeuralNet_with_layers(
             TopLayerClass, Len(layers.list),
             build_hidden_layers(layers.list, 1, [hidden_layers |-> <<>>],
                                 activation_function,
                                 dropout_list(dropout, Len(layers.list)), n_in,
                                 penalty_weight_hidden(l1_penalty_weight, Len(layers.list)),
                                 penalty_weight_hidden(l2_penalty_weight, Len(layers.list)),
                                 seed),
             top_layer, n_in, n_out, penalty_weight_output(l1_penalty_weight),
             penalty_weight_output(l2_penalty_weight), kwargs, seed)

\* LogisticRegression.__init__: super().__init__(n_in, n_out, [],
\* test_error_fct=test_error_fct), so that layers is n_in, top_layer is n_out
\* and activation_function is the empty list.
LogisticRegression_init(n_in, n_out, test_error_fct) ==
    NeuralNet_init("LogisticLayer", PyInt(n_in), PyInt(n_out), <<>>, [bool |-> FALSE],
                   None, None, PyInt(0), PyInt(0),
                   [test_error_fct |-> test_error_fct, task_weights |-> None,
                    n_tasks |-> None], 0)

\* NeuralNet.parameters (getter)
NeuralNet_parameters(self) ==
    Concat([k \in 1..Len(self.hidden_layers) |-> Layer_parameters(self.hidden_layers[k])])
    \o Top_parameters(self.top_layer)

\* len(value) < self.n_parameters: a length test that lets a sequence that is
\* too long through.
length_short(value, n_parameters) == Len(value) < n_parameters

\* len(value) != self.n_parameters, the test of the NeuralNet.parameters
\* setter and (negated, in an assert) of NeuralNet.update_parameters.
length_differs(value, n_parameters) == Len(value) # n_parameters

\* self.hidden_layers[k] after the call r on it, which returned or raised.
layer_stored(self, k, r) ==
    IF IsExc(r)
    THEN [exc |-> r.exc, at |-> r.at, self |-> [self EXCEPT !.hidden_layers[k] = r.self]]
    ELSE [self |-> [self EXCEPT !.hidden_layers[k] = r.self]]

\* self.top_layer after the call r on it, which returned or raised.
top_layer_stored(self, r) ==
    IF IsExc(r) THEN [exc |-> r.exc, at |-> r.at, self |-> [self EXCEPT !.top_layer = r.self]]
    ELSE [self |-> [self EXCEPT !.top_layer = r.self]]

\* The loop of the NeuralNet.parameters setter, from hidden layer k on; acc
\* is the network so far, or the exception a layer's setter raised.
RECURSIVE NeuralNet_set_from(_, _, _, _, _)
NeuralNet_set_from(acc, value, k, i, u) ==
    IF IsExc(acc) \/ k > Len(acc.self.hidden_layers) THEN acc
    ELSE NeuralNet_set_from(
             layer_stored(acc.self, k,
                          Layer_set_parameters(
                              acc.self.hidden_layers[k],
                              Slice(value, i, i + acc.self.hidden_layers[k].n_parameters),
                              u)),
             value, k + 1, i + acc.self.hidden_layers[k].n_parameters, u)

\* self.top_layer.parameters = value[-self.top_layer.n_parameters:]
NeuralNet_set_top(h, value, u) ==
    IF IsExc(h) THEN h
    ELSE top_layer_stored(h.self,
                          Top_set_parameters(h.self.top_layer,
                                             LastN(value, h.self.top_layer.n_parameters), u))

\* NeuralNet.parameters (setter)
NeuralNet_set_parameters(self, value, u) ==
    IF length_differs(value, self.n_parameters)
    THEN [exc |-> "ValueError", at |-> "NeuralNet.parameters", self |-> self]
    ELSE NeuralNet_set_top(NeuralNet_set_from([self |-> self], value, 1, 0, u), value, u)

\* The loop of NeuralNet.update_parameters, from hidden layer k on.
RECURSIVE NeuralNet_update_from(_, _, _, _)
NeuralNet_update_from(acc, value, k, i) ==
    IF IsExc(acc) \/ k > Len(acc.self.hidden_layers) THEN acc
    ELSE NeuralNet_update_from(
             layer_stored(acc.self, k,
                          Layer_update_parameters(
                              acc.self.hidden_layers[k],
                              Slice(value, i, i + acc.self.hidden_layers[k].n_parameters))),
             value, k + 1, i + acc.self.hidden_layers[k].n_parameters)

\* self.top_layer.update_parameters(value[-self.top_layer.n_parameters:])
NeuralNet_update_top(h, value) ==
    IF IsExc(h) THEN h
    ELSE top_layer_stored(h.self,
                          Top_update_parameters(h.self.top_layer,
                                                LastN(value, h.self.top_layer.n_parameters)))

\* NeuralNet.update_parameters
NeuralNet_update_parameters(self, value) ==
    IF length_differs(value, self.n_parameters)
    THEN [exc |-> "AssertionError", at |-> "NeuralNet.update_parameters", self |-> self]
    ELSE NeuralNet_update_top(NeuralNet_update_from([self |-> self], value, 1, 0), value)

\* str(d) of a dict d: the text of its keys and values between braces, as a
\* sequence of pieces; keys lists the keys in the order str walks them.
str_dict(d, keys) ==
    <<"{">> \o Concat([i \in 1..Len(keys) |-> <<keys[i], ":", ToString(d[keys[i]])>>])
           \o <<"}">>

\* str(hl.architecture) of a hidden layer
str_layer_architecture(hl) ==
    str_dict(HiddenLayer_architecture(hl),
             <<"class", "n_in", "n_units", "activation_function">>)

\* str(self.top_layer.architecture): of a dict for a LogisticLayer, of the
\* list of the tasks' dicts for a MultitaskTopLayer.
str_top_architecture(top) ==
    IF top.class = "MultitaskTopLayer"
    THEN <<"[">> \o Concat([t \in 1..Len(MultitaskTopLayer_architecture(top)) |->
                              str_dict(MultitaskTopLayer_architecture(top)[t],
                                       <<"class", "n_in", "n_out">>)])
               \o <<"]">>
    ELSE str_dict(LogisticLayer_architecture(top), <<"class", "n_in", "n_out">>)

\* NeuralNet.checksum: the md5 digest of the texts fed to m.update, one after
\* the other; the digest is kept as the text it is the digest of.
NeuralNet_checksum(self) ==
    [md5_of |-> Concat([k \in 1..Len(self.hidden_layers) |->
                          str_layer_architecture(self.hidden_layers[k])])
                \o str_top_architecture(self.top_layer)]

\* hidden_cache.append(the layer's feed_forward), unless it raised
cache_appended(hidden_cache, r) ==
    IF IsExc(r) THEN r ELSE [hidden_cache |-> Append(hidden_cache, r.cache)]

RECURSIVE forward_hidden(_, _, _, _, _, _)

\* The loop of NeuralNet.feed_forward over the hidden layers with the first
\* layer fed as in training, so that it never takes the prediction branch.
forward_hidden_input_plain(self, input, prediction, s, k, acc) ==
    IF IsExc(acc) \/ k > self.n_layers THEN acc
    ELSE IF k > Len(self.hidden_layers) THEN Raise("IndexError", "NeuralNet.feed_forward")
    ELSE forward_hidden(
             self, input, prediction, s, k + 1,
             cache_appended(acc.hidden_cache,
                            Layer_feed_forward(self.hidden_layers[k],
                                               IF k = 1 THEN input
                                               ELSE acc.hidden_cache[k - 1][1],
                                               k > 1 /\ prediction, s + k)))

\* The forward pass of NeuralNet.feed_forward through the hidden layers, from
\* layer k on; layer k draws its dropout mask with the seed s + k; acc holds
\* hidden_cache so far, or is the exception a layer raised.
forward_hidden(self, input, prediction, s, k, acc) ==
    IF IsExc(acc) \/ k > self.n_layers THEN acc
    ELSE IF k > Len(self.hidden_layers) THEN Raise("IndexError", "NeuralNet.feed_forward")
    ELSE forward_hidden(
             self, input, prediction, s, k + 1,
             cache_appended(acc.hidden_cache,
                            Layer_feed_forward(self.hidden_layers[k],
                                               IF k = 1 THEN input
                                               ELSE acc.hidden_cache[k - 1][1],
                                               prediction, s + k)))

\* The return statements of NeuralNet.feed_forward; without hidden layers
\* hidden_cache was never assigned.
feed_forward_return(self, return_cache, fwd, top) ==
    IF IsExc(top) THEN top
    ELSE IF ~return_cache THEN [activations |-> top.activations]
    ELSE IF self.hidden_layers = <<>>
    THEN Raise("UnboundLocalError", "NeuralNet.feed_forward")
    ELSE [activations |-> top.activations, hidden_cache |-> fwd.hidden_cache]

\* NeuralNet.feed_forward after the hidden layers, which left fwd.
feed_forward_top(self, input, return_cache, prediction, fwd) ==
    IF IsExc(fwd) THEN fwd
    ELSE feed_forward_return(
             self, return_cache, fwd,
             Top_feed_forward(self.top_layer,
                              IF self.hidden_layers # <<>>
                              THEN fwd.hidden_cache[Len(fwd.hidden_cache)][1]
                              ELSE input,
                              prediction))

\* NeuralNet.feed_forward
NeuralNet_feed_forward(self, input, return_cache, prediction, s) ==
    feed_forward_top(self, input, return_cache, prediction,
                     IF self.hidden_layers # <<>>
                     THEN forward_hidden(self, input, prediction, s, 1,
                                         [hidden_cache |-> <<>>])
                     ELSE [hidden_cache |-> None])

\* The return statements of NeuralNet.evaluate; the loss is the cross entropy
\* with the penalties added to it, kept as [cross_entropy, penalties].
evaluate_return(return_cache, fwd, ce, penalties) ==
    IF IsExc(ce) THEN ce
    ELSE IF IsErr(penalties) THEN Raise("ShapeMismatch", "NeuralNet.evaluate")
    ELSE IF ~return_cache
    THEN [loss |-> [cross_entropy |-> ce.loss, penalties |-> penalties]]
    ELSE [loss |-> [cross_entropy |-> ce.loss, penalties |-> penalties],
          hidden_cache |-> fwd.hidden_cache, activations |-> fwd.activations]

\* NeuralNet.evaluate after the forward pass, which left fwd.
evaluate_loss(self, targets, return_cache, prediction, fwd) ==
    IF IsExc(fwd) THEN fwd
    ELSE evaluate_return(return_cache, fwd,
                         Top_cross_entropy_error(self.top_layer, None, targets, FALSE,
                                                 Some(fwd.activations), prediction),
                         AddAll(Concat([k \in 1..Len(self.hidden_layers) |->
                                          Penalties(self.hidden_layers[k])])
                                \o Penalties(self.top_layer)))

\* NeuralNet.evaluate
NeuralNet_evaluate(self, input, targets, return_cache, prediction, s) ==
    evaluate_loss(self, targets, return_cache, prediction,
                  NeuralNet_feed_forward(self, input, TRUE, prediction, s))

\* The gradients g of component c, each with the place it was produced at:
\* <<c, k>> for the k-th array that component c's backprop returned.
Tagged(c, g) == [k \in 1..Len(g) |-> [of |-> <<c, k>>, g |-> g[k]]]

\* gradients.extend(g) and gradients = list(df_top_layer[0]): the same
\* statements without the reversal of g.
extend_plain(gradients, g) == gradients \o g

\* gradients.extend(g[::-1]) and gradients = list(df_top_layer[0][::-1])
extend_reversed(gradients, g) == gradients \o Reverse(g)

\* g, df_hidden = the backprop r of component c; gradients.extend(g[::-1]),
\* unless the backprop raised.
gradients_extended(gradients, c, r) ==
    IF IsExc(r) THEN r
    ELSE [gradients |-> extend_reversed(gradients, Tagged(c, r.grads)),
          df_hidden |-> r.df_input]

RECURSIVE backward_hidden(_, _, _, _, _)

\* The loop of NeuralNet.training_pass zipping the reversed layers and caches
\* with hidden_inputs left in forward order.
backward_hidden_inputs_forward(self, hidden_cache, hidden_inputs, k, acc) ==
    IF IsExc(acc) \/ k = 0 THEN acc
    ELSE backward_hidden(
             self, hidden_cache, hidden_inputs, k - 1,
             gradients_extended(acc.gradients, k,
                                Layer_backprop(self.hidden_layers[k],
                                               hidden_inputs[Len(hidden_inputs) + 1 - k],
                                               acc.df_hidden, Some(hidden_cache[k]))))

\* The loop of NeuralNet.training_pass over the reversed hidden layers, at
\* layer k, going down to layer 1; acc holds gradients and df_hidden so far,
\* or is the exception a backprop raised.
backward_hidden(self, hidden_cache, hidden_inputs, k, acc) ==
    IF IsExc(acc) \/ k = 0 THEN acc
    ELSE backward_hidden(
             self, hidden_cache, hidden_inputs, k - 1,
             gradients_extended(acc.gradients, k,
                                Layer_backprop(self.hidden_layers[k], hidden_inputs[k],
                                               acc.df_hidden, Some(hidden_cache[k]))))

\* gradients.reverse(); return loss, gradients
training_pass_return(loss, back) ==
    IF IsExc(back) THEN back ELSE [loss |-> loss, gradients |-> Reverse(back.gradients)]

\* NeuralNet.training_pass after self.evaluate, which left ev.
training_pass_backward(self, input, targets, ev) ==
    IF IsExc(ev) THEN ev
    ELSE training_pass_return(
             ev.loss,
             backward_hidden(
                 self, ev.hidden_cache,
                 <<input>> \o [k \in 1..(Len(self.hidden_layers) - 1) |->
                                 ev.hidden_cache[k][1]],
                 Len(self.hidden_layers),
                 gradients_extended(
                     <<>>, Len(self.hidden_layers) + 1,
                     Top_backprop(self.top_layer,
                                  IF self.hidden_layers # <<>>
                                  THEN ev.hidden_cache[Len(self.hidden_layers)][1]
                                  ELSE input,
                                  targets, Some(ev.activations)))))

\* NeuralNet.training_pass
NeuralNet_training_pass(self, input, targets, s) ==
    training_pass_backward(self, input, targets,
                           NeuralNet_evaluate(self, input, targets, TRUE, FALSE, s))

\* ------------------------------------------------------------------- state
\* net: the NeuralNet object, or None when its construction raised.
\* ret: the last call, its arguments and what it returned or raised.
\* steps: the number of calls made on the network so far.
VARIABLES net, ret, steps

vars == <<net, ret, steps>>

\* ------------------------------------------------------- enumerated inputs
\* The widths of the n_out list of a multitask head with nt tasks.
TaskWidths(nt) == [t \in 1..nt |-> MaxDim + (t % 2)]

DefaultKwargs == [test_error_fct |-> "class_error", task_weights |-> None, n_tasks |-> None]

\* NeuralNet(layers of unit counts, n_in=, n_out=, activation_function=,
\* dropout=d, l1_penalty_weight=, l2_penalty_weight=) and the same call of
\* MultitaskNeuralNet, with n_out a list and task_weights passed or not.
IntScripts ==
    {[family |-> "ints", cls |-> c, units |-> un, dropout |-> dr, act |-> a,
      pen |-> pw, nt |-> t, weighted |-> w] :
        c \in {"NeuralNet"}, t \in {0}, w \in {FALSE},
        un \in UNION {[1..n -> 1..MaxDim] : n \in 0..MaxLayers},
        dr \in BOOLEAN, a \in {"linear", "relu", "softplus"},
        pw \in {<<0, 0>>, <<1, 1>>}}
    \cup
    {[family |-> "ints", cls |-> c, units |-> un, dropout |-> dr, act |-> a,
      pen |-> pw, nt |-> t, weighted |-> w] :
        c \in {"MultitaskNeuralNet"}, t \in 1..MaxTasks, w \in BOOLEAN,
        un \in UNION {[1..n -> 1..MaxDim] : n \in 0..MaxLayers},
        dr \in BOOLEAN, a \in {"linear"}, pw \in {<<1, 1>>}}

\* NeuralNet(layers of unit counts, ..., dropout=[..], l1_penalty_weight=[..]):
\* a dropout flag per layer and a list of penalty weights, of the right
\* length or not.
ListScripts ==
    {[family |-> "lists", nl |-> n, first |-> d, len |-> ln] :
        n \in 1..MaxLayers, d \in BOOLEAN, ln \in 1..(MaxLayers + 1)}

\* LogisticRegression(n_in, n_out)
RegressionScripts ==
    {[family |-> "regression", n_in |-> i, n_out |-> o] : i \in 1..MaxDim, o \in 1..MaxDim}

\* NeuralNet([layer objects], top_layer=a top layer object): each hidden layer
\* is DummyLayer(n) or HiddenLayer(n, units, 'relu', parameters=(W, b)) with W
\* of the declared shape or with one row too many; the top layer is
\* LogisticLayer(n, MaxDim, parameters=(W, b)), likewise, or
\* MultitaskTopLayer(tasks=[..]) with tasks of one n_in or not, or
\* MultitaskTopLayer(n, [..], task_weights=[1, 2, ..]).  Every layer with
\* parameters takes lr_multiplier=lr: left out, or a list of one or of two
\* multipliers 1. / sqrt(1).
ObjScripts ==
    {[family |-> "objs", layers |-> ls, top |-> t, lr |-> lr] :
        ls \in UNION {[1..n -> {d \in [kind : {"dummy", "hidden", "hidden_bad"},
                                       units : 1..MaxDim] :
                                  d.kind = "dummy" => d.units = MaxDim}] : n \in 0..MaxLayers},
        t \in {"logistic", "logistic_bad", "tasks_same", "tasks_differ", "multitask"},
        lr \in {None} \cup {Some([k \in 1..n |-> OverSqrt(1, 1)]) : n \in 1..2}}

RECURSIVE BuildLayerObjects(_, _, _, _, _)
BuildLayerObjects(descs, k, objs, width, lr) ==
    IF k > Len(descs) THEN [objs |-> objs, width |-> width]
    ELSE IF descs[k].kind = "dummy"
    THEN BuildLayerObjects(descs, k + 1, Append(objs, PyObj(DummyLayer_init(width))), width,
                           lr)
    ELSE LET rows == IF descs[k].kind = "hidden" THEN width ELSE width + 1
             hl == HiddenLayer_init(width, descs[k].units, "relu", FALSE,
                                    [W |-> Pattern(<<rows, descs[k].units>>, k),
                                     b |-> Pattern(<<descs[k].units>>, k)],
                                    lr, 0, 0, Pattern(<<width, descs[k].units>>, k))
         IN  IF IsExc(hl) THEN hl
             ELSE BuildLayerObjects(descs, k + 1, Append(objs, PyObj(hl)), descs[k].units,
                                    lr)

BuildTopObject(kind, width, lr) ==
    IF kind \in {"logistic", "logistic_bad"}
    THEN LogisticLayer_init(width, MaxDim,
                            [W |-> Pattern(<<IF kind = "logistic" THEN width ELSE width + 1,
                                             MaxDim>>, 1),
                             b |-> Pattern(<<MaxDim>>, 1)],
                            0, 0, lr, "class_error", Pattern(<<width, MaxDim>>, 1))
    ELSE IF kind = "multitask"
    THEN MultitaskTopLayer_init(PyInt(width), PyList(TaskWidths(MaxTasks)), "class_error",
                                0, 0, None, PyList([t \in 1..MaxTasks |-> t]), None, lr, 0)
    ELSE MultitaskTopLayer_init(
             None, None, "class_error", 0, 0,
             PyList([t \in 1..MaxTasks |->
                       LET n_in == IF kind = "tasks_differ" /\ t > 1 THEN width + 1 ELSE width
                       IN  LogisticLayer_init(n_in, TaskWidths(MaxTasks)[t], None, 0, 0, lr,
                                              "class_error",
                                              Pattern(<<n_in, TaskWidths(MaxTasks)[t]>>, t))]),
             PyList([t \in 1..MaxTasks |-> t]), None, None, 0)

RunObjScript(p) ==
    LET ls == BuildLayerObjects(p.layers, 1, <<>>, MaxDim, p.lr)
    IN  IF IsExc(ls) THEN ls
        ELSE LET top == BuildTopObject(p.top, ls.width, p.lr)
             IN  IF IsExc(top) THEN top
                 ELSE NeuralNet_init("LogisticLayer", PyList(ls.objs), PyObj(top), "relu",
                                     [bool |-> FALSE], MaxDim, None, PyInt(0), PyInt(0),
                                     DefaultKwargs, 0)

Scripts ==
    IntScripts \cup ListScripts \cup RegressionScripts \cup ObjScripts

\* The constructor call a script stands for.
RunScript(p) ==
    IF p.family = "ints"
    THEN NeuralNet_init(
             IF p.cls = "NeuralNet" THEN "LogisticLayer" ELSE "MultitaskTopLayer",
             PyList([k \in 1..Len(p.units) |-> PyInt(p.units[k])]), None, p.act,
             [bool |-> p.dropout], MaxDim,
             IF p.cls = "NeuralNet" THEN PyInt(MaxDim) ELSE PyList(TaskWidths(p.nt)),
             PyInt(p.pen[1]), PyInt(p.pen[2]),
             [DefaultKwargs EXCEPT !.task_weights =
                  IF p.weighted THEN PyList([t \in 1..p.nt |-> t]) ELSE None],
             0)
    ELSE IF p.family = "lists"
    THEN NeuralNet_init("LogisticLayer", PyList([k \in 1..p.nl |-> PyInt(MaxDim)]), None,
                        "relu", PyList([k \in 1..p.nl |-> (k = 1) = p.first]), MaxDim,
                        PyInt(MaxDim), PyList([k \in 1..p.len |-> k % 2]), PyInt(0),
                        DefaultKwargs, 0)
    ELSE IF p.family = "regression"
    THEN LogisticRegression_init(p.n_in, p.n_out, "class_error")
    ELSE RunObjScript(p)

Init ==
    \E p \in Scripts :
        LET r == RunScript(p)
        IN  /\ net = IF IsExc(r) THEN None ELSE r
            /\ ret = [op |-> "construct", script |-> p,
                      status |-> IF IsExc(r) THEN r.exc ELSE "ok",
                      at |-> IF IsExc(r) THEN r.at ELSE ""]
            /\ steps = 0

\* ------------------------------------------------------------------ actions
\* The targets of a batch for a head of n_out classes: one-hot rows.
OneHot(batch, n_out, s) ==
    [shape |-> <<batch, n_out>>, e |-> 0,
     m |-> [i \in 1..batch |-> [j \in 1..n_out |->
              IF j = 1 + ((i + s) % n_out) THEN 1 ELSE 0]]]

TargetsFor(top, batch, s) ==
    IF top.class = "MultitaskTopLayer"
    THEN [t \in 1..Len(top.n_out) |-> OneHot(batch, top.n_out[t], s + t)]
    ELSE OneHot(batch, top.n_out, s)

Outcome(r) == IF IsExc(r) THEN r.exc ELSE "ok"

\* loss, gradients = net.training_pass(input, targets)
TrainingPass ==
    /\ ~IsNone(net)
    /\ steps < MaxSteps
    /\ \E batch \in 1..MaxBatch :
        LET input == Pattern(<<batch, net.n_in>>, 1)
            targets == TargetsFor(net.top_layer, batch, 0)
            r == NeuralNet_training_pass(net, input, targets, 0)
        IN  ret' = [op |-> "training_pass", status |-> Outcome(r), input |-> input,
                    targets |-> targets, result |-> r]
    /\ steps' = steps + 1
    /\ UNCHANGED net

\* An array a caller supplies in place of the array like: of its shape, with
\* the entries the seed fixes, on the device or (host) a numpy array.
Supplied(like, seed, host) ==
    LET shape == IF IsNone(like) \/ IsErr(like) THEN <<MaxDim>> ELSE like.shape
    IN  IF host THEN [shape |-> shape, e |-> Pattern(shape, seed).e,
                      m |-> Pattern(shape, seed).m, host |-> TRUE]
        ELSE Pattern(shape, seed)

\* The k-th array of a flat sequence for net; past the end of the parameters
\* it is shaped like the last of them.
LikeParameter(self, k) ==
    LET ps == NeuralNet_parameters(self)
    IN  IF ps = <<>> THEN None ELSE IF k > Len(ps) THEN ps[Len(ps)] ELSE ps[k]

\* Which arrays of a supplied sequence are numpy arrays: none, all, those at
\* the even places (the biases) or those at the odd places (the weights).
IsHostAt(placement, k) ==
    \/ placement = "host"
    \/ placement = "b_host" /\ k % 2 = 0
    \/ placement = "W_host" /\ k % 2 = 1

Lengths(n) == {len \in {n - 1, n, n + 1} : len >= 0}

\* net.parameters = value
SetParameters ==
    /\ ~IsNone(net)
    /\ steps < MaxSteps
    /\ \E len \in Lengths(net.n_parameters), placement \in {"gpu", "host", "b_host", "W_host"}, u \in BOOLEAN :
        LET value == [k \in 1..len |->
                        Supplied(LikeParameter(net, k), k + 1, IsHostAt(placement, k))]
            r == NeuralNet_set_parameters(net, value, u)
        IN  /\ net' = r.self
            /\ ret' = [op |-> "set_parameters", status |-> Outcome(r), value |-> value,
                       before |-> net]
    /\ steps' = steps + 1

\* net.update_parameters(value)
UpdateParameters ==
    /\ ~IsNone(net)
    /\ steps < MaxSteps
    /\ \E len \in Lengths(net.n_parameters), mult \in {-1, 2} :
        LET value == [k \in 1..len |->
                        [g |-> Supplied(LikeParameter(net, k), k, FALSE), mult |-> mult]]
            r == NeuralNet_update_parameters(net, value)
        IN  /\ net' = r.self
            /\ ret' = [op |-> "update_parameters", status |-> Outcome(r), value |-> value,
                       before |-> net]
    /\ steps' = steps + 1

\* The components of net: the hidden layers 1..n, then the top layer n + 1.
Components(self) == 1..(Len(self.hidden_layers) + 1)

Component(self, c) ==
    IF c <= Len(self.hidden_layers) THEN self.hidden_layers[c] ELSE self.top_layer

Component_parameters(self, c) ==
    IF c <= Len(self.hidden_layers) THEN Layer_parameters(self.hidden_layers[c])
    ELSE Top_parameters(self.top_layer)

\* layer.update_parameters(values), called on one component of the network
LayerUpdateParameters ==
    /\ ~IsNone(net)
    /\ steps < MaxSteps
    /\ \E c \in Components(net) :
        \E len \in Lengths(Component(net, c).n_parameters) :
            LET ps == Component_parameters(net, c)
                values == [k \in 1..len |->
                             [g |-> Supplied(IF ps = <<>> THEN None
                                             ELSE IF k > Len(ps) THEN ps[Len(ps)] ELSE ps[k],
                                             k, FALSE),
                              mult |-> 1]]
                r == IF c <= Len(net.hidden_layers)
                     THEN Layer_update_parameters(net.hidden_layers[c], values)
                     ELSE Top_update_parameters(net.top_layer, values)
            IN  /\ net' = IF c <= Len(net.hidden_layers)
                          THEN [net EXCEPT !.hidden_layers[c] = r.self]
                          ELSE [net EXCEPT !.top_layer = r.self]
                /\ ret' = [op |-> "layer.update_parameters", status |-> Outcome(r),
                           component |-> c, values |-> values, before |-> net]
    /\ steps' = steps + 1

\* layer.backprop(input, df_output, cache) called on one hidden layer, with
\* no cache, with the cache of feed_forward(input, prediction=False) or with
\* that of feed_forward(input, prediction=True)
HiddenBackprop ==
    /\ ~IsNone(net)
    /\ steps < MaxSteps
    /\ \E k \in 1..Len(net.hidden_layers), how \in {"none", "training", "prediction"} :
        LET self == net.hidden_layers[k]
            input == Pattern(<<MaxBatch, self.n_in>>, 1)
            df_output == Pattern(<<MaxBatch, self.n_units>>, 2)
            fwd == Layer_feed_forward(self, input, how = "prediction", 0)
            r == Layer_backprop(self, input, df_output,
                                IF how = "none" THEN None ELSE Some(fwd.cache))
        IN  /\ ~IsExc(fwd)
            /\ ret' = [op |-> "layer.backprop", status |-> Outcome(r), layer |-> k,
                       cache |-> how, input |-> input, df_output |-> df_output,
                       result |-> r]
    /\ steps' = steps + 1
    /\ UNCHANGED net

\* net.top_layer.backprop(input, targets, cache) on a multitask head, with no
\* cache or with the activations of its feed_forward
MultitaskBackprop ==
    /\ ~IsNone(net)
    /\ steps < MaxSteps
    /\ net.top_layer.class = "MultitaskTopLayer"
    /\ \E s \in 0..1, cached \in BOOLEAN :
        LET self == net.top_layer
            input == Pattern(<<MaxBatch, self.n_in>>, 1)
            targets == TargetsFor(self, MaxBatch, s)
            fwd == MultitaskTopLayer_feed_forward(self, input, FALSE)
            r == MultitaskTopLayer_backprop(self, input, targets,
                                            IF cached THEN Some(fwd.activations) ELSE None)
        IN  /\ ~IsExc(fwd)
            /\ ret' = [op |-> "multitask.backprop", status |-> Outcome(r),
                       cached |-> cached, input |-> input, targets |-> targets,
                       result |-> r]
    /\ steps' = steps + 1
    /\ UNCHANGED net

\* net.top_layer.class_error(input, targets, average) on a logistic head
ClassError ==
    /\ ~IsNone(net)
    /\ steps < MaxSteps
    /\ net.top_layer.class = "LogisticLayer"
    /\ \E batch \in 1..MaxBatch, s \in 0..1, average \in BOOLEAN :
        LET self == net.top_layer
            input == Pattern(<<batch, self.n_in>>, 1)
            targets == OneHot(batch, self.n_out, s)
            r == LogisticLayer_class_error(self, input, targets, average, None, FALSE)
        IN  ret' = [op |-> "class_error", status |-> Outcome(r), average |-> average,
                    input |-> input, targets |-> targets, result |-> r]
    /\ steps' = steps + 1
    /\ UNCHANGED net

\* net.feed_forward(input, return_cache, prediction)
FeedForward ==
    /\ ~IsNone(net)
    /\ steps < MaxSteps
    /\ \E return_cache \in BOOLEAN, prediction \in BOOLEAN :
        LET input == Pattern(<<MaxBatch, net.n_in>>, 1)
            r == NeuralNet_feed_forward(net, input, return_cache, prediction, 0)
        IN  ret' = [op |-> "feed_forward", status |-> Outcome(r),
                    return_cache |-> return_cache, prediction |-> prediction,
                    input |-> input, result |-> r]
    /\ steps' = steps + 1
    /\ UNCHANGED net

\* net.evaluate(input, targets, return_cache, prediction)
Evaluate ==
    /\ ~IsNone(net)
    /\ steps < MaxSteps
    /\ \E return_cache \in BOOLEAN, prediction \in BOOLEAN :
        LET input == Pattern(<<MaxBatch, net.n_in>>, 1)
            targets == TargetsFor(net.top_layer, MaxBatch, 0)
            r == NeuralNet_evaluate(net, input, targets, return_cache, prediction, 0)
        IN  ret' = [op |-> "evaluate", status |-> Outcome(r),
                    return_cache |-> return_cache, prediction |-> prediction,
                    input |-> input, targets |-> targets, result |-> r]
    /\ steps' = steps + 1
    /\ UNCHANGED net

Next ==
    \/ TrainingPass
    \/ SetParameters
    \/ UpdateParameters
    \/ LayerUpdateParameters
    \/ HiddenBackprop
    \/ MultitaskBackprop
    \/ ClassError
    \/ FeedForward
    \/ Evaluate

Spec == Init /\ [][Next]_vars

\* ------------------------------------------------------------------ claims
\* Two arrays are equal: same shape, same entries.
SameArray(x, y) == x.shape = y.shape /\ x.e = y.e /\ x.m = y.m

\* The places of the parameter groups of a network in declaration order:
\* <<c, k>> is the k-th array of component c, the hidden layers first and the
\* output head last, W before b within a layer.
ParameterOwners(self) ==
    Concat([c \in Components(self) |->
              [k \in 1..Len(Component_parameters(self, c)) |-> <<c, k>>]])

LrOwners(self) ==
    Concat([c \in Components(self) |->
              [k \in 1..Len(Component(self, c).lr_multiplier) |-> <<c, k>>]])

\* Every component of the network holds one learning-rate multiplier per
\* parameter group, as the default lr_multiplier does.
HasDeclaredMultipliers(self) ==
    \A c \in Components(self) :
        Len(Component(self, c).lr_multiplier) = Component(self, c).n_parameters

C2_ParameterRoundTrip ==
    (ret.op = "set_parameters" /\ ret.status = "ok") =>
        LET ps == NeuralNet_parameters(net)
            owners == ParameterOwners(net)
        IN  /\ Len(ps) = Len(ret.value)
            /\ Len(ret.value) = ret.before.n_parameters
            /\ \A k \in 1..Len(ps) :
                /\ SameArray(ps[k], ret.value[k])
                /\ SameArray(Component_parameters(net, owners[k][1])[owners[k][2]],
                             ret.value[k])

\* An assignment to the parameters of a network with MaxLayers hidden layers
\* with parameters has succeeded and changed them.
C2_Witness ==
    /\ ret.op = "set_parameters"
    /\ ret.status = "ok"
    /\ Len(net.hidden_layers) = MaxLayers
    /\ \A k \in 1..MaxLayers : net.hidden_layers[k].class = "HiddenLayer"
    /\ Len(ret.value) = 2 * MaxLayers + Len(Top_parameters(net.top_layer))
    /\ NeuralNet_parameters(net) # NeuralNet_parameters(ret.before)

\* W and b of a layer have the shapes its n_in and n_units or n_out declare.
HasDeclaredShapes(layer) ==
    IF layer.class = "HiddenLayer"
    THEN layer.W.shape = <<layer.n_in, layer.n_units>> /\ layer.b.shape = <<layer.n_units>>
    ELSE IF layer.class = "LogisticLayer"
    THEN layer.W.shape = <<layer.n_in, layer.n_out>> /\ layer.b.shape = <<layer.n_out>>
    ELSE TRUE

\* C3: for every constructed Hidden layer and Logistic head, with sampled or
\* supplied parameters, W.shape = (n_in, n_units or n_out) and
\* b.shape = (n_units or n_out,) after construction and after any sequence
\* of update_parameters calls.
C3_DeclaredShapes ==
    ~IsNone(net) =>
        /\ \A k \in 1..Len(net.hidden_layers) : HasDeclaredShapes(net.hidden_layers[k])
        /\ HasDeclaredShapes(net.top_layer)
        /\ net.top_layer.class = "MultitaskTopLayer" =>
               \A t \in 1..Len(net.top_layer.tasks) : HasDeclaredShapes(net.top_layer.tasks[t])

\* A Logistic head constructed with a supplied W of n_in + 1 rows is in
\* place, and construction did not object.
C3_Witness ==
    /\ ret.op = "construct"
    /\ ret.status = "ok"
    /\ net.top_layer.class = "LogisticLayer"
    /\ net.top_layer.W.shape = <<net.top_layer.n_in + 1, net.top_layer.n_out>>

\* A construction script that asks for no hidden layer and is otherwise valid.
AsksNoHiddenLayer(p) ==
    \/ p.family = "regression"
    \/ p.family = "ints" /\ p.units = <<>> /\ p.act # "softplus"
    \/ p.family = "objs" /\ p.layers = <<>> /\ p.top \in {"logistic", "multitask"}

\* C4: a network may have no hidden layer: its construction succeeds, and
\* feed_forward and evaluate then hand the input to the output head and
\* training_pass returns the head's gradients only.
C4_EmptyNetwork ==
    /\ (ret.op = "construct" /\ AsksNoHiddenLayer(ret.script)) =>
           /\ ret.status = "ok"
           /\ net.hidden_layers = <<>>
    /\ (~IsNone(net) /\ net.hidden_layers = <<>>
            /\ ret.op \in {"feed_forward", "evaluate", "training_pass"}) =>
           ret.status = "ok"

\* NeuralNet([], n_in=, n_out=) has raised IndexError.
C4_Witness ==
    /\ ret.op = "construct"
    /\ ret.script.family = "ints"
    /\ ret.script.cls = "NeuralNet"
    /\ ret.script.units = <<>>
    /\ ret.script.act = "relu"
    /\ ret.status = "IndexError"
    /\ IsNone(net)

\* The sum over the tasks 1..t of task_weight * df_input of the task's own
\* backprop from the shared input.
RECURSIVE WeightedTaskSum(_, _, _, _)
WeightedTaskSum(self, input, targets, t) ==
    IF t = 0 THEN zeros_like(input)
    ELSE axpbyz(WeightedTaskSum(self, input, targets, t - 1), 1,
                LogisticLayer_backprop(self.tasks[t], input, targets[t], None).df_input,
                self.task_weights[t])

\* C5: the df_input a multitask head's backprop returns is the sum over the
\* tasks of task_weight_i * df_input_i, df_input_i being what task i's own
\* backprop computes from the same input.
C5_WeightedInputGradient ==
    (ret.op = "multitask.backprop" /\ ret.status = "ok") =>
        SameArray(ret.result.df_input,
                  WeightedTaskSum(net.top_layer, ret.input, ret.targets,
                                  Len(net.top_layer.tasks)))

\* A multitask head with task_weights [1, 2] has returned an all-zero
\* df_input although the weighted sum of its tasks' input gradients is not
\* zero.
C5_Witness ==
    /\ ret.op = "multitask.backprop"
    /\ ret.status = "ok"
    /\ net.top_layer.task_weights = <<1, 2>>
    /\ SameArray(ret.result.df_input, zeros_like(ret.input))
    /\ ~SameArray(WeightedTaskSum(net.top_layer, ret.input, ret.targets, 2),
                  zeros_like(ret.input))

\* A construction script that passes MultitaskTopLayer an explicit list of
\* task heads, behind valid hidden layers.
PassesTasks(p) ==
    /\ p.family = "objs"
    /\ p.top \in {"tasks_same", "tasks_differ"}
    /\ \A k \in 1..Len(p.layers) : p.layers[k].kind # "hidden_bad"

\* C6: the tasks of every constructed multitask head share the head's n_in;
\* construction from an explicit list of task heads of one n_in succeeds and
\* keeps the tasks in the given order, and construction from task heads of
\* differing n_in fails with a configuration error.
C6_TasksShareInput ==
    /\ (~IsNone(net) /\ net.top_layer.class = "MultitaskTopLayer") =>
           \A t \in 1..Len(net.top_layer.tasks) :
               net.top_layer.tasks[t].n_in = net.top_layer.n_in
    /\ (ret.op = "construct" /\ PassesTasks(ret.script)) =>
           IF ret.script.top = "tasks_same"
           THEN /\ ret.status = "ok"
                /\ net.top_layer.class = "MultitaskTopLayer"
                /\ net.top_layer.n_out = TaskWidths(MaxTasks)
           ELSE ret.status = "AssertionError"

\* MultitaskTopLayer(tasks=[..]) with task heads of one n_in has raised
\* AttributeError.
C6_Witness ==
    /\ ret.op = "construct"
    /\ PassesTasks(ret.script)
    /\ ret.script.top = "tasks_same"
    /\ ret.status = "AttributeError"
    /\ ret.at = "MultitaskTopLayer.__init__"

\* C7: backprop of a Hidden layer without dropout, called without a cache,
\* does not fail and returns the (dW, db) and df_input it returns when given
\* the cache of feed_forward(input, prediction=False).
C7_BackpropWithoutCache ==
    (/\ ret.op = "layer.backprop"
     /\ ret.cache = "none"
     /\ net.hidden_layers[ret.layer].class = "HiddenLayer"
     /\ ~net.hidden_layers[ret.layer].dropout) =>
        LET self == net.hidden_layers[ret.layer]
            fwd == HiddenLayer_feed_forward(self, ret.input, FALSE, 0)
        IN  /\ ret.status = "ok"
            /\ ret.result = HiddenLayer_backprop(self, ret.input, ret.df_output,
                                                 Some(fwd.cache))

\* backprop of a Hidden layer without dropout was called without a cache and
\* raised TypeError, while the same call with the cache of
\* feed_forward(input, prediction=False) returns gradients.
C7_Witness ==
    /\ ret.op = "layer.backprop"
    /\ ret.cache = "none"
    /\ net.hidden_layers[ret.layer].class = "HiddenLayer"
    /\ ~net.hidden_layers[ret.layer].dropout
    /\ ret.status = "TypeError"
    /\ LET self == net.hidden_layers[ret.layer]
           fwd == HiddenLayer_feed_forward(self, ret.input, FALSE, 0)
       IN  ~IsExc(HiddenLayer_backprop(self, ret.input, ret.df_output, Some(fwd.cache)))

\* C8: update_parameters of a Hidden, Logistic or Dummy layer fails when the
\* number of gradient pairs differs from the layer's n_parameters (2, 2 and
\* 0) and leaves the layer's parameters unchanged.
C8_LayerLengthChecked ==
    (/\ ret.op = "layer.update_parameters"
     /\ Component(ret.before, ret.component).class \in {"HiddenLayer", "LogisticLayer", "DummyLayer"}
     /\ Len(ret.values) # Component(ret.before, ret.component).n_parameters) =>
        /\ ret.status # "ok"
        /\ Component_parameters(net, ret.component)
               = Component_parameters(ret.before, ret.component)

\* update_parameters of a Dummy layer was given one gradient pair and
\* returned normally.
C8_Witness ==
    /\ ret.op = "layer.update_parameters"
    /\ Component(ret.before, ret.component).class = "DummyLayer"
    /\ Len(ret.values) = 1
    /\ ret.status = "ok"

\* The number of parameter groups the components of a network declare.
DeclaredParameters(self) ==
    Len(Concat([c \in Components(self) |->
                  [k \in 1..Component(self, c).n_parameters |-> c]]))

\* C9: the assignment to parameters and update_parameters of a network fail
\* when the flat sequence has a length other than n_parameters, the sum of
\* the components' n_parameters, and no layer's parameters are modified.
C9_NetworkLengthChecked ==
    /\ ~IsNone(net) => net.n_parameters = DeclaredParameters(net)
    /\ (/\ ret.op \in {"set_parameters", "update_parameters"}
        /\ Len(ret.value) # DeclaredParameters(ret.before)) =>
           /\ ret.status = IF ret.op = "set_parameters" THEN "ValueError"
                           ELSE "AssertionError"
           /\ net = ret.before

\* update_parameters of a network with a hidden layer with parameters was
\* given one gradient pair too many and raised.
C9_Witness ==
    /\ ret.op = "update_parameters"
    /\ Len(ret.value) = ret.before.n_parameters + 1
    /\ ret.before.hidden_layers # <<>>
    /\ ret.before.hidden_layers[1].class = "HiddenLayer"
    /\ ret.status = "AssertionError"
    /\ net = ret.before

\* The rows of a batch whose predicted class differs from the target class.
Mismatches(self, input, targets) ==
    LET a == LogisticLayer_feed_forward(self, input, FALSE).activations
    IN  {i \in 1..NRows(a) : argmax(a.m[i], NCols(a)) # argmax(targets.m[i], NCols(targets))}

\* C10: class_error of a Logistic head returns the number of mismatching
\* rows when average is false and that number divided by the number of rows
\* when average is true.
C10_ClassError ==
    (ret.op = "class_error" /\ ret.status = "ok") =>
        LET count == Cardinality(Mismatches(net.top_layer, ret.input, ret.targets))
            rows == NRows(ret.input)
            e == ret.result.error
        IN  IF ret.average THEN e.num * rows = count * e.den
            ELSE e.num = count * e.den

\* class_error(average=True) on a batch of two rows of which one is
\* misclassified has returned 1.
C10_Witness ==
    /\ ret.op = "class_error"
    /\ ret.status = "ok"
    /\ ret.average
    /\ NRows(ret.input) = 2
    /\ Cardinality(Mismatches(net.top_layer, ret.input, ret.targets)) = 1
    /\ ret.result.error = [num |-> 1, den |-> 1]

\* The activations a hidden layer computes from its input before any dropout
\* step: f(input . W + b).
PlainActivations(layer, input) ==
    apply_f(layer.activation_function,
            add_vec_to_mat(dot(input, layer.W, FALSE, FALSE), layer.b))

\* h is a with every entry multiplied by 0.5.
IsHalfOf(h, a) == SameArray(axpbyz(h, 1, h, 1), a)

\* A feed_forward of the network returned with its caches, and the first
\* hidden layer has parameters.
ForwardThroughFirstLayer ==
    /\ ret.op = "feed_forward"
    /\ ret.status = "ok"
    /\ ret.return_cache
    /\ net.hidden_layers[1].class = "HiddenLayer"

InputOfLayer(input, hidden_cache, k) ==
    IF k = 1 THEN input ELSE hidden_cache[k - 1][1]

\* m is a binary mask of the shape of a.
IsBinaryMask(m, a) ==
    /\ m.shape = a.shape
    /\ m.e = 0
    /\ \A i \in 1..NRows(m), j \in 1..NCols(m) : m.m[i][j] \in {0, 1}

\* What HiddenLayer.feed_forward is to return for a layer and its input.
IsFeedForwardCache(layer, input, prediction, cache) ==
    IF layer.dropout /\ prediction
    THEN /\ Len(cache) = 1
         /\ IsHalfOf(cache[1], PlainActivations(layer, input))
    ELSE IF layer.dropout
    THEN /\ Len(cache) = 2
         /\ IsBinaryMask(cache[2], PlainActivations(layer, input))
         /\ SameArray(cache[1], mul(PlainActivations(layer, input), cache[2]))
    ELSE /\ Len(cache) = 1
         /\ SameArray(cache[1], PlainActivations(layer, input))

RECURSIVE BackpropOfComponent(_, _, _, _, _)
BackpropOfComponent(self, input, targets, ev, c) ==
    IF c = Len(self.hidden_layers) + 1
    THEN Top_backprop(self.top_layer,
                      InputOfLayer(input, ev.hidden_cache, c), targets,
                      Some(ev.activations))
    ELSE Layer_backprop(self.hidden_layers[c],
                        InputOfLayer(input, ev.hidden_cache, c),
                        BackpropOfComponent(self, input, targets, ev, c + 1).df_input,
                        Some(ev.hidden_cache[c]))

\* Every gradient array in gradients is the one the backprop of its
\* component returned at its place.
GradientsComeFrom(self, input, targets, ev, gradients) ==
    \A i \in 1..Len(gradients) :
        gradients[i].g =
            BackpropOfComponent(self, input, targets, ev,
                                gradients[i].of[1]).grads[gradients[i].of[2]]

\* C13: training_pass runs the backward pass in the reverse of the forward
\* order: the head's backprop first, on the last hidden layer's cached
\* activations and the raw targets, then the hidden layers from last to
\* first, each on the cached activations of the layer before it (the network
\* input for the first), the df_input of the component after it and its own
\* cache of the same forward pass; and every component contributes.
C13_BackwardOrder ==
    (ret.op = "training_pass" /\ ret.status = "ok") =>
        /\ Len(ret.result.gradients) = net.n_parameters
        /\ GradientsComeFrom(net, ret.input, ret.targets,
                             NeuralNet_evaluate(net, ret.input, ret.targets, TRUE, FALSE, 0),
                             ret.result.gradients)

\* training_pass returned on a network of two hidden layers with parameters
\* under a Logistic head, and the first layer's weight gradient is not zero:
\* the gradient of the head went down through both layers.
C13_Witness ==
    /\ ret.op = "training_pass"
    /\ ret.status = "ok"
    /\ Len(net.hidden_layers) = 2
    /\ net.hidden_layers[1].class = "HiddenLayer"
    /\ net.hidden_layers[2].class = "HiddenLayer"
    /\ net.top_layer.class = "LogisticLayer"
    /\ Len(ret.result.gradients) = 6
    /\ ~SameArray(ret.result.gradients[1].g, zeros_like(net.hidden_layers[1].W))

\* The last call assigned or updated parameters, of the network or of one
\* of its components.
ChangedParameters ==
    ret.op \in {"set_parameters", "update_parameters", "layer.update_parameters"}

\* C14: the checksum of a network is a function of the architectures of its
\* hidden layers, in order, followed by that of its head, not of parameter
\* values: an assignment to parameters and an update_parameters call leave
\* it unchanged, and the network before the call and the network after it,
\* two networks of one architecture, have the same checksum.
C14_ChecksumIgnoresParameters ==
    (ChangedParameters /\ ~IsNone(net)) =>
        NeuralNet_checksum(net) = NeuralNet_checksum(ret.before)

\* An assignment to the parameters of a network with a hidden layer with
\* parameters returned and changed the layer's weights; the checksum is the
\* one from before the assignment.
C14_Witness ==
    /\ ret.op = "set_parameters"
    /\ ret.status = "ok"
    /\ net.hidden_layers[1].class = "HiddenLayer"
    /\ ~SameArray(net.hidden_layers[1].W, ret.before.hidden_layers[1].W)
    /\ NeuralNet_checksum(net) = NeuralNet_checksum(ret.before)

\* C15, as the spec states it: in every constructed network, whatever
\* lr_multiplier its layers were given, lr_multiplier, parameters and
\* n_parameters agree in length, also after parameters were assigned or
\* updated.
C15_MultiplierPerParameter ==
    ~IsNone(net) =>
        /\ Len(net.lr_multiplier) = Len(NeuralNet_parameters(net))
        /\ Len(NeuralNet_parameters(net)) = net.n_parameters

\* A network was built from a hidden layer and a Logistic head that were
\* each given a list of one multiplier: it has four parameters and two
\* multipliers.
C15_Witness ==
    /\ ~IsNone(net)
    /\ ret.op = "construct"
    /\ ret.script.family = "objs"
    /\ ret.script.lr = Some(<<OverSqrt(1, 1)>>)
    /\ Len(net.hidden_layers) = 1
    /\ net.hidden_layers[1].class = "HiddenLayer"
    /\ net.top_layer.class = "LogisticLayer"
    /\ net.n_parameters = 4
    /\ Len(NeuralNet_parameters(net)) = 4
    /\ Len(net.lr_multiplier) = 2

====
